---- MODULE Spec2Model ----
(***************************************************************************)
(* Model of active-projects/ads_sync/ads_sync_cli.py: the per-client lock  *)
(* (client_lock), the temp-file-and-rename writers (atomic_write_csv,      *)
(* save_client_state), the date-window functions (chunk_date_ranges,       *)
(* calculate_append_window), the merge (deduplicate_campaigns) and the     *)
(* command handlers (handle_init, handle_append, handle_repair,            *)
(* handle_validate), force_unlock and get_next_sequence_number.            *)
(*                                                                         *)
(* Spec       concurrent processes, each running one command through       *)
(*            client_lock, at the grain of single system calls.            *)
(* SpecOps    commands run one after the other, each as one step, on real  *)
(*            rows, watermarks and error records.                          *)
(* SpecFail   the same, with every step of a command able to raise.        *)
(* SpecAgain  the same, failing again at one reading of the clock.         *)
(* SpecValidate, SpecUnlock  Spec with validate processes, with an         *)
(*            operator running force-unlock.                               *)
(* SpecLive   Spec with every started process scheduled fairly.            *)
(* SpecSeq    concurrent calls of get_next_sequence_number.                *)
(* SpecEnrich one call of enrich_campaign_data.                            *)
(* SpecChunk  one call of chunk_date_ranges.                               *)
(* SpecWindow one call of calculate_append_window.                         *)
(***************************************************************************)
EXTENDS Integers, Sequences, FiniteSets, TLC

\* ------------------------------------------------------------- bounds
\* chunk_date_ranges is called on ranges of up to MaxSpan days past 2024-02-27,
\* with chunk_days up to MaxChunkDays.
MaxSpan == 6
MaxChunkDays == 3
\* Sequential commands: the clock advances MaxTicks times by 12 hours, the
\* upstream holds at most MaxFetch rows, at most MaxErrors error records are
\* written.
MaxTicks == 2
MaxFetch == 2
MaxErrors == 1
\* calculate_append_window is called with watermarks up to MaxBack days before
\* 2025-09-20, overlap_days up to MaxOverlap and max_window_days up to MaxWindow.
MaxBack == 4
MaxOverlap == 2
MaxWindow == 2
\* enrich_campaign_data is called on rows with impressions, clicks and
\* conversions up to MaxMetric.
MaxMetric == 2
\* Number of CLI processes started on the one slug.
NumProcs == 3
\* client_lock's timeout counted in time.sleep(2) polls: elapsed > timeout
\* holds once a waiter has slept more than TimeoutPolls times.
TimeoutPolls == 1

Procs == 1..NumProcs

VARIABLES
    pc,        \* pc[p]: position of process p in its command handler
    waited,    \* waited[p]: number of time.sleep(2) calls p made in client_lock
    result,    \* result[p]: how p's command ended
    lockFile,  \* locks/<slug>.lock: NoLock, or [creator, pid] (pid 0: not yet written)
    file,      \* file[k]: target and temp path of the dataset ("csv") and the state ("state")
    fd         \* fd[p]: where the inode p holds open for writing is linked now

lockVars == <<pc, waited, result, lockFile, file, fd>>

VARIABLES
    now,       \* the wall clock: hours since 2024-01-01T00:00 UTC
    phase,     \* position of a call of a date-window function: "call", "return", "off"
    arg,       \* the arguments of that call
    ret        \* its return value

fnVars == <<phase, arg, ret>>

VARIABLES
    config,    \* configs/clients/<slug>.yaml: timezone and sync settings
    stateFile, \* state/<slug>.json: NoState, or the saved state record
    dataset,   \* data/<slug>/<slug>-master-campaign_data.csv: NoData, or its lines
    errors,    \* errors/<slug>/: the error records, one per file name
    last       \* what the last command did: its name, outcome and fetched rows

opsVars == <<config, stateFile, dataset, errors, last>>

VARIABLES
    indexFile, \* output/<slug>/<year>/index.json: its content and who holds its flock
    seq        \* seq[p]: position, value read and return value of p's call of
               \* get_next_sequence_number

seqVars == <<indexFile, seq>>

\* -------------------------------------------------- the lock file
NoLock == [creator |-> 0, pid |-> 0]

\* A pid exists from the start of its command until the process exits or is killed.
ProcessExists(q) == q \in Procs /\ pc[q] \notin {"idle", "exit", "dead"}

\* The program positions between the exclusive create and the release.
SectionPcs == {"locked", "body", "csv_open", "csv_write", "csv_rename",
               "st_open", "st_write", "st_rename", "handler", "release"}

InSection(p) == pc[p] \in SectionPcs

\* -------------------------------------------------- files
Kinds == {"csv", "state"}
Absent == [by |-> 0, st |-> "absent"]
\* Content left by earlier, completed runs.
Old == [by |-> 0, st |-> "full"]

PcOpen(k) == IF k = "csv" THEN "csv_open" ELSE "st_open"
PcWrite(k) == IF k = "csv" THEN "csv_write" ELSE "st_write"
PcRename(k) == IF k = "csv" THEN "csv_rename" ELSE "st_rename"

\* Where the inode a writer holds open ends up when the temp path of kind k
\* is renamed over the target: the temp inode becomes the target, the old
\* target inode loses its last link.
FdAfterRename(q, k) ==
    IF pc[q] = PcWrite(k)
    THEN CASE fd[q] = "tmp" -> "target"
           [] fd[q] = "target" -> "orphan"
           [] OTHER -> fd[q]
    ELSE fd[q]

\* What a write through a descriptor does to the content of its inode.  A
\* writer starts at offset 0: an empty file becomes the writer's complete
\* content; a file somebody else has filled since is overwritten in place,
\* and its bytes are a mix of the two.
Written(c, p) ==
    IF c.st = "empty"
    THEN [by |-> p, st |-> "full"]
    ELSE [by |-> c.by, st |-> "garbled"]

\* The commands' data, the function calls and the clock stay as they are.
OpsIdle ==
    UNCHANGED <<now, phase, arg, ret, config, stateFile, dataset, errors, last, seqVars>>

\* -------------------------------------------------- client_lock
\* Command start: client_lock records start_time and enters its loop.
\* Processes are numbered in the order in which they start.
Start(p) ==
    /\ pc[p] = "idle"
    /\ \A q \in Procs : q < p => pc[q] # "idle"
    /\ pc' = [pc EXCEPT ![p] = "acquire"]
    /\ UNCHANGED <<waited, result, lockFile, file, fd>>
    /\ OpsIdle

\* os.open(lock_path, O_CREAT | O_EXCL | O_WRONLY) succeeds.
lock_create(p) ==
    /\ pc[p] = "acquire"
    /\ lockFile = NoLock
    /\ lockFile' = [creator |-> p, pid |-> 0]
    /\ pc' = [pc EXCEPT ![p] = "locked"]
    /\ waited' = [waited EXCEPT ![p] = 0]
    /\ UNCHANGED <<result, file, fd>>
    /\ OpsIdle

\* elapsed > timeout, elapsed being the time slept so far.
TimedOut(p) == waited[p] > TimeoutPolls

\* FileExistsError before the timeout: time.sleep(2) and try again.
lock_wait(p) ==
    /\ pc[p] = "acquire"
    /\ lockFile # NoLock
    /\ ~TimedOut(p)
    /\ waited' = [waited EXCEPT ![p] = @ + 1]
    /\ UNCHANGED <<pc, result, lockFile, file, fd>>
    /\ OpsIdle

\* FileExistsError after the timeout: go on to the stale check.
lock_expired(p) ==
    /\ pc[p] = "acquire"
    /\ lockFile # NoLock
    /\ TimedOut(p)
    /\ pc' = [pc EXCEPT ![p] = "stale_read"]
    /\ UNCHANGED <<waited, result, lockFile, file, fd>>
    /\ OpsIdle

\* raise TimeoutError: it leaves client_lock before the with block is
\* entered, outside the handler's try, and ends the command.
TimeoutError(p) ==
    /\ pc' = [pc EXCEPT ![p] = "exit"]
    /\ result' = [result EXCEPT ![p] = "LockTimeout"]
    /\ waited' = [waited EXCEPT ![p] = 0]

\* The stale check reads the lock file and probes the recorded pid with
\* os.kill(pid, 0).  Only a file that holds a pid of no existing process
\* leads to os.remove; a missing file, a file without the pid lines, or a
\* live owner end in TimeoutError.
\* A stale check that does not probe the pid: any lock file counts as stale.
IsStaleUnprobed(lf) == lf # NoLock

IsStale(lf) == lf # NoLock /\ lf.pid # 0 /\ ~ProcessExists(lf.pid)

lock_stale_read(p) ==
    /\ pc[p] = "stale_read"
    /\ IF IsStale(lockFile)
       THEN /\ pc' = [pc EXCEPT ![p] = "stale_remove"]
            /\ UNCHANGED <<result, waited>>
       ELSE /\ TimeoutError(p)
    /\ UNCHANGED <<lockFile, file, fd>>
    /\ OpsIdle

\* os.remove(lock_path) of the stale check, then `continue`.  The path is
\* removed whatever file it names by now; if it is gone the OSError is
\* logged and TimeoutError raised.
lock_stale_remove(p) ==
    /\ pc[p] = "stale_remove"
    /\ IF lockFile # NoLock
       THEN /\ lockFile' = NoLock
            /\ pc' = [pc EXCEPT ![p] = "acquire"]
            /\ UNCHANGED <<result, waited>>
       ELSE /\ TimeoutError(p)
            /\ UNCHANGED lockFile
    /\ UNCHANGED <<file, fd>>
    /\ OpsIdle

\* os.write(fd, "pid: ...\ntimestamp: ...\n"): the bytes go to the inode p
\* created, which is the lock file only while nobody has removed it.
lock_write_pid(p) ==
    /\ pc[p] = "locked"
    /\ lockFile' = IF lockFile.creator = p
                   THEN [lockFile EXCEPT !.pid = p]
                   ELSE lockFile
    /\ pc' = [pc EXCEPT ![p] = "body"]
    /\ UNCHANGED <<waited, result, file, fd>>
    /\ OpsIdle

\* A release that forgets the error paths: the lock file is removed only
\* after a command that succeeded.
lock_release_on_success(p) ==
    /\ pc[p] = "release"
    /\ lockFile' = IF result[p] = "ok" THEN NoLock ELSE lockFile
    /\ pc' = [pc EXCEPT ![p] = "exit"]
    /\ UNCHANGED <<waited, result, file, fd>>
    /\ OpsIdle

\* The finally clause: os.close(fd), os.remove(lock_path).  A missing file
\* is an OSError that is logged.
lock_release(p) ==
    /\ pc[p] = "release"
    /\ lockFile' = NoLock
    /\ pc' = [pc EXCEPT ![p] = "exit"]
    /\ UNCHANGED <<waited, result, file, fd>>
    /\ OpsIdle

\* The process is killed inside the locked section: no finally clause runs.
Kill(p) ==
    /\ InSection(p)
    /\ pc' = [pc EXCEPT ![p] = "dead"]
    /\ fd' = [fd EXCEPT ![p] = "none"]
    /\ UNCHANGED <<waited, result, lockFile, file>>
    /\ OpsIdle

\* -------------------------------------------------- command bodies
\* An exception inside the try block of a handler: control goes to its
\* except clause.  A descriptor opened by a with block or by to_csv is closed.
Raise(p) ==
    /\ pc' = [pc EXCEPT ![p] = "handler"]
    /\ fd' = [fd EXCEPT ![p] = "none"]

\* What json.load / pd.read_csv can make of a target file.
Readable(c) == c.st \in {"full", "garbled"}

\* The steps of a handler from load_client_config up to the first write.
\* handle_init and handle_append load the config and the state
\* (load_client_state builds a fresh record when there is no state file),
\* compute the window and fetch; handle_append then needs the master CSV.
\* handle_repair loads the config and is done.  Every one of these steps can
\* raise.  client_lock does not depend on the command, so the model
\* chooses the command o that p was started with here, where it first matters.
handler_body(p, o) ==
    /\ pc[p] = "body"
    /\ \/ /\ Raise(p)
          /\ UNCHANGED result
       \/ /\ o = "repair"
          /\ pc' = [pc EXCEPT ![p] = "release"]
          /\ result' = [result EXCEPT ![p] = "ok"]
          /\ UNCHANGED fd
       \/ /\ o \in {"init", "append"}
          /\ file["state"].target = Absent \/ Readable(file["state"].target)
          /\ o = "append" => Readable(file["csv"].target)
          /\ pc' = [pc EXCEPT ![p] = "csv_open"]
          /\ UNCHANGED <<result, fd>>
    /\ UNCHANGED <<waited, lockFile, file>>
    /\ OpsIdle

\* atomic_write_csv / save_client_state, first step: the temp path
\* (<target>.tmp, the same name for every process) is opened for writing,
\* which creates it or truncates the file already there.
tmp_open(p, k) ==
    /\ pc[p] = PcOpen(k)
    /\ file' = [file EXCEPT ![k].tmp = [by |-> p, st |-> "empty"]]
    /\ fd' = [fd EXCEPT ![p] = "tmp"]
    /\ pc' = [pc EXCEPT ![p] = PcWrite(k)]
    /\ UNCHANGED <<waited, result, lockFile>>
    /\ OpsIdle

\* Second step: df.to_csv / json.dump write through the descriptor and close
\* it; or the write raises (disk full, unserializable value).
tmp_write(p, k) ==
    /\ pc[p] = PcWrite(k)
    /\ \/ /\ file' = CASE fd[p] = "tmp" ->
                            [file EXCEPT ![k].tmp = Written(@, p)]
                       [] fd[p] = "target" ->
                            [file EXCEPT ![k].target = Written(@, p)]
                       [] OTHER -> file
          /\ fd' = [fd EXCEPT ![p] = "none"]
          /\ pc' = [pc EXCEPT ![p] = PcRename(k)]
       \/ /\ Raise(p)
          /\ UNCHANGED file
    /\ UNCHANGED <<waited, result, lockFile>>
    /\ OpsIdle

\* Third step: os.replace(tmp_path, path).  With the temp path gone it
\* raises FileNotFoundError.  After the dataset the handler goes on to the
\* state; after the state it is done.
tmp_rename(p, k) ==
    /\ pc[p] = PcRename(k)
    /\ IF file[k].tmp # Absent
       THEN /\ file' = [file EXCEPT ![k] = [target |-> file[k].tmp, tmp |-> Absent]]
            /\ fd' = [q \in Procs |-> FdAfterRename(q, k)]
            /\ pc' = [pc EXCEPT ![p] = IF k = "csv" THEN "st_open" ELSE "release"]
            /\ result' = [result EXCEPT ![p] = IF k = "csv" THEN @ ELSE "ok"]
       ELSE /\ Raise(p)
            /\ UNCHANGED <<file, result>>
    /\ UNCHANGED <<waited, lockFile>>
    /\ OpsIdle

\* The except clause: save_error_recovery_info writes the record and the
\* exception is raised again; or building or writing the record raises
\* itself and no record is written.
handler_except(p) ==
    /\ pc[p] = "handler"
    /\ \E r \in {"failed", "handler_error"} :
           /\ result' = [result EXCEPT ![p] = r]
           /\ errors' = IF r = "failed" THEN errors \cup {[slug |-> "slug", process |-> p]}
                        ELSE errors
    /\ pc' = [pc EXCEPT ![p] = "release"]
    /\ UNCHANGED <<waited, lockFile, file, fd>>
    /\ UNCHANGED <<now, phase, arg, ret, config, stateFile, dataset, last, seqVars>>

\* -------------------------------------------------- force_unlock
\* The force-unlock command: lock_path.exists(), then os.remove(lock_path),
\* whoever created the file.  Without a lock file it only logs.
force_unlock ==
    /\ lockFile # NoLock
    /\ lockFile' = NoLock
    /\ UNCHANGED <<pc, waited, result, file, fd>>
    /\ OpsIdle

\* -------------------------------------------------- handle_validate
\* The validate command: its handler enters its try block at once, without
\* client_lock.
validate_start(p) ==
    /\ pc[p] = "idle"
    /\ \A q \in Procs : q < p => pc[q] # "idle"
    /\ pc' = [pc EXCEPT ![p] = "v_config"]
    /\ UNCHANGED <<waited, result, lockFile, file, fd>>
    /\ OpsIdle

\* An exception in handle_validate: it is logged and raised again, which
\* ends the command.
ValidateRaise(p) ==
    /\ pc' = [pc EXCEPT ![p] = "exit"]
    /\ result' = [result EXCEPT ![p] = "invalid"]

\* load_client_config(slug): the config file is there and parses, or not.
validate_config(p) ==
    /\ pc[p] = "v_config"
    /\ \/ ValidateRaise(p)
       \/ /\ pc' = [pc EXCEPT ![p] = "v_state"]
          /\ UNCHANGED result
    /\ UNCHANGED <<waited, lockFile, file, fd>>
    /\ OpsIdle

\* A load_client_state that saves the fresh record it builds when there is
\* no state file.
validate_state_creating(p) ==
    /\ pc[p] = "v_state"
    /\ IF file["state"].target = Absent \/ Readable(file["state"].target)
       THEN /\ pc' = [pc EXCEPT ![p] = "v_csv"]
            /\ UNCHANGED result
       ELSE ValidateRaise(p)
    /\ file' = IF file["state"].target = Absent
               THEN [file EXCEPT !["state"].target = [by |-> p, st |-> "full"]]
               ELSE file
    /\ UNCHANGED <<waited, lockFile, fd>>
    /\ OpsIdle

\* load_client_state(slug): json.load of the state file as it is at this
\* moment, or a fresh record in memory when there is none.
validate_state(p) ==
    /\ pc[p] = "v_state"
    /\ IF file["state"].target = Absent \/ Readable(file["state"].target)
       THEN /\ pc' = [pc EXCEPT ![p] = "v_csv"]
            /\ UNCHANGED result
       ELSE ValidateRaise(p)
    /\ UNCHANGED <<waited, lockFile, file, fd>>
    /\ OpsIdle

\* data_path.exists() and pd.read_csv(data_path, nrows=10) of the master CSV
\* as it is at this moment; a missing file is a warning.
validate_csv(p) ==
    /\ pc[p] = "v_csv"
    /\ IF file["csv"].target = Absent \/ Readable(file["csv"].target)
       THEN /\ pc' = [pc EXCEPT ![p] = "exit"]
            /\ result' = [result EXCEPT ![p] = "ok"]
       ELSE ValidateRaise(p)
    /\ UNCHANGED <<waited, lockFile, file, fd>>
    /\ OpsIdle

ValidateNext ==
    \/ \E p \in Procs : validate_start(p)
    \/ \E p \in Procs : validate_config(p)
    \/ \E p \in Procs : validate_state(p)
    \/ \E p \in Procs : validate_csv(p)

\* -------------------------------------------------- get_next_sequence_number
\* index.json: "absent", "empty" (created or truncated, nothing written
\* yet), "full" (a complete JSON document with this last_sequence) or
\* "garbled" (bytes of two documents); flock: the process holding LOCK_EX on
\* it, or 0.  The build with fcntl is modelled.
NoIndex == [st |-> "absent", last_sequence |-> 0, flock |-> 0]

SeqIdle == [at |-> "idle", data |-> 0, out |-> 0]

SeqOff ==
    /\ indexFile = NoIndex
    /\ seq = [p \in Procs |-> SeqIdle]

SeqAt(p, at) == seq' = [seq EXCEPT ![p].at = at]

LockIdle == UNCHANGED <<lockVars, fnVars, opsVars, now>>

\* A report command calls get_next_sequence_number(slug, year).
seq_call(p) ==
    /\ seq[p].at = "idle"
    /\ \A q \in Procs : q < p => seq[q].at # "idle"
    /\ SeqAt(p, "exists")
    /\ UNCHANGED indexFile
    /\ LockIdle

\* if not index_path.exists()
seq_exists(p) ==
    /\ seq[p].at = "exists"
    /\ SeqAt(p, IF indexFile.st = "absent" THEN "create" ELSE "open")
    /\ UNCHANGED indexFile
    /\ LockIdle

\* open(index_path, 'w'): creates the file or truncates the one there.
seq_create(p) ==
    /\ seq[p].at = "create"
    /\ indexFile' = [indexFile EXCEPT !.st = "empty", !.last_sequence = 0]
    /\ SeqAt(p, "init_dump")
    /\ LockIdle

\* json.dump({"last_sequence": 0, "reports": []}, f) and the close of the
\* with block, which writes the buffered document at offset 0: over an empty
\* file or over the same document it leaves that document, over the longer
\* indented document of an increment it leaves a mix of the two.
seq_init_dump(p) ==
    /\ seq[p].at = "init_dump"
    /\ indexFile' = IF indexFile.st = "empty"
                       \/ (indexFile.st = "full" /\ indexFile.last_sequence = 0)
                    THEN [indexFile EXCEPT !.st = "full", !.last_sequence = 0]
                    ELSE [indexFile EXCEPT !.st = "garbled"]
    /\ SeqAt(p, "open")
    /\ LockIdle

\* open(index_path, 'r+')
seq_open(p) ==
    /\ seq[p].at = "open"
    /\ SeqAt(p, "flock")
    /\ UNCHANGED indexFile
    /\ LockIdle

\* fcntl.flock(f.fileno(), fcntl.LOCK_EX) blocks while another process
\* holds the lock.
seq_flock(p) ==
    /\ seq[p].at = "flock"
    /\ indexFile.flock = 0
    /\ indexFile' = [indexFile EXCEPT !.flock = p]
    /\ SeqAt(p, "load")
    /\ LockIdle

\* data = json.load(f); seq = data["last_sequence"] + 1.  What is not a
\* complete document raises JSONDecodeError, which leaves through the finally
\* clause.
seq_load(p) ==
    /\ seq[p].at = "load"
    /\ seq' = IF indexFile.st = "full"
              THEN [seq EXCEPT ![p].at = "truncate",
                               ![p].data = indexFile.last_sequence]
              ELSE [seq EXCEPT ![p].at = "unlock_raise"]
    /\ UNCHANGED indexFile
    /\ LockIdle

\* f.seek(0); f.truncate(); json.dump(data, f, indent=2): the file is cut to
\* nothing at once, the document stays in f's buffer.
seq_truncate(p) ==
    /\ seq[p].at = "truncate"
    /\ indexFile' = [indexFile EXCEPT !.st = "empty", !.last_sequence = 0]
    /\ SeqAt(p, "unlock")
    /\ LockIdle

\* finally: fcntl.flock(f.fileno(), fcntl.LOCK_UN), before the with block
\* closes f.
seq_unlock(p) ==
    /\ seq[p].at \in {"unlock", "unlock_raise"}
    /\ indexFile' = [indexFile EXCEPT !.flock = 0]
    /\ SeqAt(p, IF seq[p].at = "unlock" THEN "close" ELSE "done")
    /\ LockIdle

\* The with block closes f, which writes the buffered document at offset 0
\* (it is as long as any document in the file, and replaces it), and the call
\* returns str(seq).zfill(3).
seq_close(p) ==
    /\ seq[p].at = "close"
    /\ indexFile' = [indexFile EXCEPT !.st = "full",
                                      !.last_sequence = seq[p].data + 1]
    /\ seq' = [seq EXCEPT ![p].at = "done", ![p].out = seq[p].data + 1]
    /\ LockIdle

SeqNext ==
    \/ \E p \in Procs : seq_call(p)
    \/ \E p \in Procs : seq_exists(p)
    \/ \E p \in Procs : seq_create(p)
    \/ \E p \in Procs : seq_init_dump(p)
    \/ \E p \in Procs : seq_open(p)
    \/ \E p \in Procs : seq_flock(p)
    \/ \E p \in Procs : seq_load(p)
    \/ \E p \in Procs : seq_truncate(p)
    \/ \E p \in Procs : seq_unlock(p)
    \/ \E p \in Procs : seq_close(p)

\* -------------------------------------------------- specification
Commands == {"init", "append", "repair"}

LockInit ==
    /\ pc = [p \in Procs |-> "idle"]
    /\ waited = [p \in Procs |-> 0]
    /\ result = [p \in Procs |-> "none"]
    /\ lockFile = NoLock
    /\ \E c \in {Absent, Old} :
           file = [k \in Kinds |-> [target |-> c, tmp |-> Absent]]
    /\ fd = [p \in Procs |-> "none"]

LockNext ==
    \/ \E p \in Procs : Start(p)
    \/ \E p \in Procs : lock_create(p)
    \/ \E p \in Procs : lock_wait(p)
    \/ \E p \in Procs : lock_expired(p)
    \/ \E p \in Procs : lock_stale_read(p)
    \/ \E p \in Procs : lock_stale_remove(p)
    \/ \E p \in Procs : lock_write_pid(p)
    \/ \E p \in Procs, o \in Commands : handler_body(p, o)
    \/ \E p \in Procs, k \in Kinds : tmp_open(p, k)
    \/ \E p \in Procs, k \in Kinds : tmp_write(p, k)
    \/ \E p \in Procs, k \in Kinds : tmp_rename(p, k)
    \/ \E p \in Procs : handler_except(p)
    \/ \E p \in Procs : lock_release(p)
    \/ \E p \in Procs : Kill(p)



\* -------------------------------------------------- calendar dates
\* A date object is the number of days since 2024-01-01; its ISO string
\* "YYYY-MM-DD" (strftime("%Y-%m-%d"), isoformat) is the triple <<y, m, d>>.
IsLeap(y) == (y % 4 = 0 /\ y % 100 # 0) \/ y % 400 = 0

DaysInYear(y) == IF IsLeap(y) THEN 366 ELSE 365

DaysInMonth(y, m) ==
    CASE m = 2 -> IF IsLeap(y) THEN 29 ELSE 28
      [] m \in {4, 6, 9, 11} -> 30
      [] OTHER -> 31

RECURSIVE YearSplit(_, _)
YearSplit(n, y) ==
    IF n < 0 THEN YearSplit(n + DaysInYear(y - 1), y - 1)
    ELSE IF n >= DaysInYear(y) THEN YearSplit(n - DaysInYear(y), y + 1)
    ELSE <<y, n>>

RECURSIVE MonthSplit(_, _, _)
MonthSplit(n, y, m) ==
    IF n >= DaysInMonth(y, m) THEN MonthSplit(n - DaysInMonth(y, m), y, m + 1)
    ELSE <<y, m, n + 1>>

IsoOf(n) ==
    LET ys == YearSplit(n, 2024) IN MonthSplit(ys[2], ys[1], 1)

\* The days of 2024 and 2025, converted once.
IsoTable == [n \in 0..730 |-> IsoOf(n)]

isoformat(n) == IF n \in DOMAIN IsoTable THEN IsoTable[n] ELSE IsoOf(n)

RECURSIVE DaysBeforeYear(_)
DaysBeforeYear(y) ==
    IF y = 2024 THEN 0
    ELSE IF y > 2024 THEN DaysBeforeYear(y - 1) + DaysInYear(y - 1)
    ELSE DaysBeforeYear(y + 1) - DaysInYear(y)

DaysBeforeMonth(y, m) ==
    <<0, 31, 59, 90, 120, 151, 181, 212, 243, 273, 304, 334>>[m]
        + (IF m > 2 /\ IsLeap(y) THEN 1 ELSE 0)

fromisoformat(iso) ==
    DaysBeforeYear(iso[1]) + DaysBeforeMonth(iso[1], iso[2]) + iso[3] - 1

\* pytz.timezone(name): the zone's offset from UTC in hours (standard time).
Timezones == {"America/Chicago", "UTC", "Asia/Tokyo"}

UtcOffset(tz) ==
    CASE tz = "America/Chicago" -> -6
      [] tz = "Asia/Tokyo" -> 9
      [] OTHER -> 0

\* datetime.now(tz).date()
LocalDate(tz) == (now + UtcOffset(tz)) \div 24

Min(a, b) == IF a <= b THEN a ELSE b

\* -------------------------------------------------- chunk_date_ranges
\* The while loop, with `chunks` the list built so far.
RECURSIVE ChunkLoop(_, _, _, _)
ChunkLoop(current, end, chunk_days, chunks) ==
    IF current < end
    THEN LET chunk_end == Min(current + chunk_days, end)
         IN  ChunkLoop(chunk_end + 1, end, chunk_days,
                       Append(chunks, <<isoformat(current), isoformat(chunk_end)>>))
    ELSE chunks

chunk_date_ranges(start, end, chunk_days) ==
    ChunkLoop(start, end, chunk_days, <<>>)

\* -------------------------------------------------- calculate_append_window
\* None, and the empty string, count as no watermark.
NoDate == <<>>

\* The same with the cap on the window left out.
calculate_append_window_uncapped(watermark_date, overlap_days, max_window_days, client_tz) ==
    LET yesterday == LocalDate(client_tz) - 1
        start == IF watermark_date # NoDate
                 THEN fromisoformat(watermark_date) - overlap_days
                 ELSE yesterday - max_window_days
    IN  <<isoformat(start), isoformat(yesterday)>>

calculate_append_window(watermark_date, overlap_days, max_window_days, client_tz) ==
    LET today == LocalDate(client_tz)
        yesterday == today - 1
        start0 == IF watermark_date # NoDate
                  THEN fromisoformat(watermark_date) - overlap_days
                  ELSE yesterday - max_window_days
        start == IF yesterday - start0 > max_window_days
                 THEN yesterday - max_window_days
                 ELSE start0
    IN  <<isoformat(start), isoformat(yesterday)>>

\* -------------------------------------------------- rows and the merge
\* A row of a DataFrame: the key columns and the time of the fetch that
\* produced it (pull_date), which tells two versions of a row apart.
Row(date, campaign_id, pull_date) ==
    [date |-> date, campaign_id |-> campaign_id, data_source |-> "google_ads",
     pull_date |-> pull_date]

PrimaryKey(row) == <<row.date, row.campaign_id, row.data_source>>

\* The rows of df at the indices in keep, in order.
RECURSIVE Pick(_, _, _)
Pick(df, keep, i) ==
    IF i > Len(df) THEN <<>>
    ELSE IF i \in keep THEN <<df[i]>> \o Pick(df, keep, i + 1)
    ELSE Pick(df, keep, i + 1)

\* drop_duplicates(subset=[date, campaign_id, data_source], keep="first")
deduplicate_campaigns_keep_first(df) ==
    Pick(df, {i \in 1..Len(df) :
                \A j \in 1..(i - 1) : PrimaryKey(df[j]) # PrimaryKey(df[i])}, 1)

\* drop_duplicates(subset=[date, campaign_id, data_source], keep="last")
deduplicate_campaigns(df) ==
    Pick(df, {i \in 1..Len(df) :
                \A j \in (i + 1)..Len(df) : PrimaryKey(df[j]) # PrimaryKey(df[i])}, 1)

\* df.to_csv(index=False) and pd.read_csv: a line per row, a row per line.
to_csv(df) ==
    [i \in 1..Len(df) |->
        <<df[i].pull_date, df[i].date, df[i].campaign_id, df[i].data_source>>]

read_csv(lines) ==
    [i \in 1..Len(lines) |->
        [date |-> lines[i][2], campaign_id |-> lines[i][3],
         data_source |-> lines[i][4], pull_date |-> lines[i][1]]]

\* fetch_campaign_data: a row, stamped with the time of the pull, for every
\* (date, campaign) the upstream holds with segments.date BETWEEN start_date
\* AND end_date, ORDER BY segments.date.  `upstream` is the ordered list of
\* those (date, campaign) pairs.
fetch_campaign_data(upstream, start_date, end_date) ==
    LET hits == SelectSeq(upstream, LAMBDA r :
                    /\ fromisoformat(start_date) <= fromisoformat(r[1])
                    /\ fromisoformat(r[1]) <= fromisoformat(end_date))
    IN  [i \in 1..Len(hits) |-> Row(hits[i][1], hits[i][2], now)]

\* -------------------------------------------------- derived metrics
\* None (NaN in the frame), and a quotient a / b as the fraction in lowest
\* terms.
Null == <<>>

RECURSIVE GCD(_, _)
GCD(a, b) == IF b = 0 THEN a ELSE GCD(b, a % b)

Quotient(a, b) == LET g == GCD(a, b) IN <<a \div g, b \div g>>

\* A row with its metrics and the derived columns it carries.
MetricsRow(impressions, clicks, cost, conversions, carried) ==
    [impressions |-> impressions, clicks |-> clicks, cost |-> cost,
     conversions |-> conversions,
     ctr |-> carried, avg_cpc |-> carried, cpa |-> carried, conv_rate |-> carried]

\* An enrichment that computes a derived column only where the row has none.
enrich_campaign_data_fill_missing(df, currency_code) ==
    [i \in 1..Len(df) |->
        LET row == df[i]
            Fill(old, new) == IF old # Null THEN old ELSE new
        IN  [row EXCEPT
               !.ctr = Fill(@, IF row.impressions > 0
                               THEN Quotient(row.clicks, row.impressions) ELSE Null),
               !.avg_cpc = Fill(@, IF row.clicks > 0
                                   THEN Quotient(row.cost, row.clicks) ELSE Null),
               !.cpa = Fill(@, IF row.conversions > 0
                               THEN Quotient(row.cost, row.conversions) ELSE Null),
               !.conv_rate = Fill(@, IF row.clicks > 0
                                     THEN Quotient(row.conversions, row.clicks) ELSE Null)]]

\* enrich_campaign_data: df.apply(..., axis=1) assigns each derived column
\* from the row's own metrics.  (currency_code and schema_version are
\* constant columns.)
enrich_campaign_data(df, currency_code) ==
    [i \in 1..Len(df) |->
        LET row == df[i]
        IN  [row EXCEPT
               !.ctr = IF row.impressions > 0
                       THEN Quotient(row.clicks, row.impressions) ELSE Null,
               !.avg_cpc = IF row.clicks > 0
                           THEN Quotient(row.cost, row.clicks) ELSE Null,
               !.cpa = IF row.conversions > 0
                       THEN Quotient(row.cost, row.conversions) ELSE Null,
               !.conv_rate = IF row.clicks > 0
                             THEN Quotient(row.conversions, row.clicks) ELSE Null]]

\* -------------------------------------------------- state and error records
NoState == [watermark_date |-> NoDate, timezone |-> "absent", duplicate_rows_removed |-> -1]
NoData == <<"absent">>

\* load_client_state: the saved record, or a fresh one.
load_client_state ==
    IF stateFile # NoState THEN stateFile
    ELSE [watermark_date |-> NoDate, timezone |-> "None", duplicate_rows_removed |-> 0]

\* The steps of a handler that can raise, in program order, and what each
\* raises.
Steps == <<"config", "state", "window", "client", "fetch", "load_csv", "merge",
           "write_csv", "save_state">>

ExceptionType(step) ==
    CASE step \in {"config", "client", "load_csv"} -> "FileNotFoundError"
      [] step = "state" -> "JSONDecodeError"
      [] step = "window" -> "UnknownTimeZoneError"
      [] step = "fetch" -> "GoogleAdsException"
      [] step = "merge" -> "ValueError"
      [] OTHER -> "OSError"

\* save_error_recovery_info: the record and its recovery command.  The file
\* is named by the time of the failure, error_%Y%m%d_%H%M%S.json, and opened
\* with 'w': two failures at one reading of the clock (one second for the
\* code, one value of now here) write the same file.
RecoveryCommand(command, context) ==
    CASE command = "append" ->
            <<"repair", "slug", "--from", context.start_date, "--to", context.end_date>>
      [] command = "init" -> <<"init", "slug">>
      [] OTHER -> <<command, "slug">>

\* main's parser, on the words after "python ads_sync_cli.py": init and
\* append take the slug alone; repair takes the slug and its two options,
\* both required (an option is a word and its value; an unknown option or a
\* missing required one ends the run with status 2).  "--from" and "--to"
\* abbreviate neither option.
RepairOptions == {"--start", "--end"}

parse_args(argv) ==
    LET at == {i \in 3..Len(argv) : i % 2 = 1}
        names == {argv[i] : i \in at}
        value(o) == argv[(CHOOSE i \in at : argv[i] = o) + 1]
    IN  IF argv[1] = "repair" /\ Len(argv) % 2 = 0 /\ names = RepairOptions
        THEN [ok |-> TRUE, command |-> "repair", slug |-> argv[2],
              start |-> value("--start"), end |-> value("--end")]
        ELSE IF argv[1] \in {"init", "append"} /\ Len(argv) = 2
        THEN [ok |-> TRUE, command |-> argv[1], slug |-> argv[2],
              start |-> <<>>, end |-> <<>>]
        ELSE [ok |-> FALSE, command |-> argv[1], slug |-> <<>>,
              start |-> <<>>, end |-> <<>>]

ErrorRecord(command, step, context) ==
    [timestamp |-> now, command |-> command, slug |-> "slug",
     exception_type |-> ExceptionType(step), exception_message |-> step,
     context |-> context,
     recovery_command |-> RecoveryCommand(command, context)]

save_error_recovery_info(command, step, context) ==
    {e \in errors : e.timestamp # now} \cup {ErrorRecord(command, step, context)}

\* -------------------------------------------------- command handlers
\* The commands below run one after the other, each from its lock
\* acquisition to its release; `fail` names the step at which the
\* environment makes the command raise ("none": no step), `upstream` is the
\* table the advertising API answers from.

\* The zone of the machine the CLI runs on, for the naive datetime.now().
ServerZone == "UTC"

Concat(a, b) == a \o b

\* The loop over the chunks: fetch each, in order, and pd.concat them.
RECURSIVE FetchChunks(_, _, _)
FetchChunks(upstream, chunks, i) ==
    IF i > Len(chunks) THEN <<>>
    ELSE Concat(fetch_campaign_data(upstream, chunks[i][1], chunks[i][2]),
                FetchChunks(upstream, chunks, i + 1))

\* The record of a command for the checks: its name, the step that raised
\* and what reached the caller, the rows it fetched, the number of rows
\* deduplicate_campaigns removed, what the schema validation said
\* ("not_run", "valid", "invalid"), and for a repair whether it repeats the
\* command before it, which succeeded.
Outcome(command, step, raised, fetched, removed, validation) ==
    [command |-> command, step |-> step, raised |-> raised,
     fetched |-> fetched, removed |-> removed, validation |-> validation,
     again |-> command = "repair" /\ last.command = command /\ last.raised = "none"]

\* The schema file schemas/campaign_data_v1.schema.json: missing, not JSON,
\* a schema every row satisfies, or one no row satisfies.
Schemas == {"absent", "unreadable", "lenient", "strict"}

\* validate_campaign_data: (is_valid, errors), the errors naming the rows.
validate_campaign_data(df, schema) ==
    CASE schema = "absent" -> <<TRUE, <<>> >>
      [] schema = "unreadable" -> <<FALSE, <<"JSONDecodeError">> >>
      [] schema = "strict" -> <<Len(df) = 0, [i \in 1..Len(df) |-> i]>>
      [] OTHER -> <<TRUE, <<>> >>

\* A handler that raises on validation errors instead of logging them.
after_validation_blocking(step, validation) ==
    IF step \in {"none", "write_csv", "save_state"} /\ ~validation[1]
    THEN "merge" ELSE step

\* `if not is_valid:` the handlers log the first errors and continue: the
\* step that raises is the one it was before.
after_validation(step, validation) == step

\* What the record of a command says of its validation, which runs after the
\* merge and before the write.
Validation(step, validation) ==
    IF step \notin {"none", "write_csv", "save_state"} THEN "not_run"
    ELSE IF validation[1] THEN "valid" ELSE "invalid"

\* The steps of handle_init that can raise.
InitSteps == {"config", "state", "client", "fetch", "merge", "write_csv", "save_state"}

\* (A local bound by \E over a singleton is computed once, where a LET is
\* computed again at each use.)
handle_init(fail, upstream, schema) ==
    LET state == load_client_state
        end_date == LocalDate(ServerZone)
        start_date == end_date - 365
    IN  \E chunks \in {chunk_date_ranges(start_date, end_date, 90)} :
        \E all_data \in {IF fail \in {"config", "state", "client", "fetch"} THEN <<>>
                          ELSE FetchChunks(upstream, chunks, 1)} :
        \E df_master \in {deduplicate_campaigns(all_data)} :
        LET removed == Len(all_data) - Len(df_master)
            validation == validate_campaign_data(df_master, schema)
            step == after_validation(fail, validation)
        IN
        IF step # "none"
        THEN /\ errors' = save_error_recovery_info("init", step,
                                                   [phase |-> "initial_backfill"])
             /\ dataset' = IF step = "save_state" THEN to_csv(df_master) ELSE dataset
             /\ UNCHANGED stateFile
             /\ last' = Outcome("init", step, ExceptionType(step), all_data, removed,
                                Validation(fail, validation))
        ELSE /\ dataset' = to_csv(df_master)
             /\ stateFile' = [state EXCEPT !.watermark_date = isoformat(end_date),
                                           !.timezone = config.timezone]
             /\ UNCHANGED errors
             /\ last' = Outcome("init", "none", "none", all_data, removed,
                                Validation(fail, validation))

\* The window handle_append computes from the stored watermark.
AppendWindow ==
    calculate_append_window(load_client_state.watermark_date, config.overlap_days,
                            config.max_window_days, config.timezone)

\* An append that does not look for the master CSV and starts from no rows.
AppendStepBootstrap(fail) == fail

\* The step of handle_append that raises when the environment fails it at
\* `fail`: the master CSV must exist once the fetch is done.
AppendStep(fail) ==
    IF fail \in {"config", "state", "window", "client", "fetch"} THEN fail
    ELSE IF dataset = NoData THEN "load_csv"
    ELSE fail

handle_append(fail, upstream, schema) ==
    LET state == load_client_state
        reached == AppendStep(fail)
    IN  \E window \in {AppendWindow} :
        LET start_date == window[1]
            end_date == window[2]
        IN
        \E df_new \in {IF reached \in {"config", "state", "window", "client", "fetch"}
                        THEN <<>>
                        ELSE fetch_campaign_data(upstream, start_date, end_date)} :
        \E df_existing \in {IF dataset = NoData THEN <<>> ELSE read_csv(dataset)} :
        \E df_master \in {deduplicate_campaigns(Concat(df_existing, df_new))} :
        LET removed == Len(df_existing) + Len(df_new) - Len(df_master)
            validation == validate_campaign_data(df_master, schema)
            step == after_validation(reached, validation)
            \* start_date and end_date are assigned by the window computation
            assigned == step \notin {"config", "state", "window"}
        IN
        IF step # "none"
        THEN /\ errors' = IF assigned
                          THEN save_error_recovery_info("append", step,
                                   [start_date |-> start_date, end_date |-> end_date])
                          ELSE errors
             /\ dataset' = IF step = "save_state" THEN to_csv(df_master) ELSE dataset
             /\ UNCHANGED stateFile
             /\ last' = Outcome("append", step,
                                IF assigned THEN ExceptionType(step) ELSE "UnboundLocalError",
                                df_new, removed, Validation(reached, validation))
        ELSE /\ dataset' = to_csv(df_master)
             /\ stateFile' = [state EXCEPT !.watermark_date = end_date]
             /\ UNCHANGED errors
             /\ last' = Outcome("append", "none", "none", df_new, removed,
                                Validation(reached, validation))

\* A repair that appends the rows of its range to the dataset file without
\* deduplicating them.
handle_repair_appending(fail, start_date, end_date) ==
    /\ UNCHANGED <<errors, stateFile>>
    /\ dataset' = IF dataset = NoData THEN <<>>
                  ELSE to_csv(Concat(read_csv(dataset),
                                     <<Row(start_date, 101, now)>>))
    /\ last' = Outcome("repair", "none", "none", <<>>, 0, "not_run")

\* handle_repair loads the config and logs; the range comes from the command
\* line.
handle_repair(fail, start_date, end_date) ==
    /\ errors' = IF fail # "none"
                 THEN save_error_recovery_info("repair", fail,
                          [start_date |-> start_date, end_date |-> end_date])
                 ELSE errors
    /\ UNCHANGED <<dataset, stateFile>>
    /\ last' = Outcome("repair", fail,
                       IF fail # "none" THEN ExceptionType(fail) ELSE "none", <<>>, 0,
                       "not_run")

\* -------------------------------------------------- the environment
\* The upstream holds data of campaign 101 for some of the dates around
\* 2025-09-20, at most MaxFetch of them.
Today == fromisoformat(<<2025, 9, 20>>)

UpstreamDates == {Today + d : d \in (-2)..0}

RECURSIVE SortedDates(_)
SortedDates(ds) ==
    IF ds = {} THEN <<>>
    ELSE LET d == CHOOSE x \in ds : \A y \in ds : x <= y
         IN  <<d>> \o SortedDates(ds \ {d})

UpstreamTables ==
    {LET ds == SortedDates(D)
     IN  [i \in 1..Len(ds) |-> <<isoformat(ds[i]), 101>>] :
     D \in {X \in SUBSET UpstreamDates : Cardinality(X) <= MaxFetch}}

Configs ==
    {[timezone |-> z, overlap_days |-> o, max_window_days |-> MaxWindow] :
        z \in Timezones, o \in {0, MaxOverlap}}

NoOutcome ==
    [command |-> "none", step |-> "none", raised |-> "none",
     fetched |-> <<>>, removed |-> 0, validation |-> "not_run", again |-> FALSE]

OpsInit ==
    /\ now = 24 * Today + 3
    /\ config \in Configs
    /\ stateFile = NoState
    /\ dataset = NoData
    /\ errors = {}
    /\ last = NoOutcome

OpsOff ==
    /\ config = [timezone |-> "UTC", overlap_days |-> 0, max_window_days |-> 0]
    /\ stateFile = NoState
    /\ dataset = NoData
    /\ errors = {}
    /\ last = NoOutcome

\* Twelve hours pass.
Tick ==
    /\ now < 24 * Today + 3 + 12 * MaxTicks
    /\ now' = now + 12
    /\ UNCHANGED <<opsVars, fnVars, lockVars, seqVars>>

\* What the environment may fail: any step; but the merge (concat,
\* deduplicate, enrich, validate) raises only on no rows at all, and then or
\* not depending on the pandas at hand.
MayFail(fail, rows) ==
    /\ fail = "merge" => rows = <<>>
    /\ fail # "none" => Cardinality(errors) < MaxErrors

\* The failures that need no fault of the machine or the network.
NaturalFails == {"none", "merge"}

AllFails == {"none"} \cup {Steps[i] : i \in 1..Len(Steps)}

RunInit(tables, fails, schemas) ==
    \E upstream \in tables, fail \in fails \cap (InitSteps \cup {"none"}),
       schema \in schemas :
        /\ MayFail(fail, upstream)
        /\ handle_init(fail, upstream, schema)
        /\ UNCHANGED <<config, now, fnVars, lockVars, seqVars>>

RunAppend(tables, fails, schemas) ==
    \E upstream \in tables, fail \in fails, schema \in schemas :
        /\ MayFail(AppendStep(fail),
                   IF dataset = NoData \/ dataset # <<>> THEN dataset ELSE
                   fetch_campaign_data(upstream, AppendWindow[1], AppendWindow[2]))
        /\ handle_append(fail, upstream, schema)
        /\ UNCHANGED <<config, now, fnVars, lockVars, seqVars>>

RepairRanges == {<<isoformat(Today - 1), isoformat(Today)>>}

RunRepair(fails) ==
    \E r \in RepairRanges, fail \in fails \cap {"none", "config"} :
        /\ MayFail(fail, <<>>)
        /\ handle_repair(fail, r[1], r[2])
        /\ UNCHANGED <<config, now, fnVars, lockVars, seqVars>>

OpsNext ==
    \/ Tick
    \/ RunInit(UpstreamTables, NaturalFails, {"lenient"})
    \/ RunAppend(UpstreamTables, NaturalFails, {"lenient"})
    \/ RunRepair({"none"})

\* The same commands with any step failing and any schema file, on an
\* upstream of one row.
FailTables == {<<>>, << <<isoformat(Today - 1), 101>> >>}

FailNext ==
    \/ Tick
    \/ RunInit(FailTables, AllFails, Schemas)
    \/ RunAppend(FailTables, AllFails, Schemas)
    \/ RunRepair(AllFails)

\* The same commands failing again and again: a failure is possible as long
\* as fewer than MaxErrors records of earlier clock readings exist.
MayFailAgain(fail, rows) ==
    /\ fail = "merge" => rows = <<>>
    /\ fail # "none" => Cardinality({e \in errors : e.timestamp # now}) < MaxErrors

AgainInit ==
    \E upstream \in FailTables, fail \in InitSteps \cup {"none"} :
        /\ MayFailAgain(fail, upstream)
        /\ handle_init(fail, upstream, "lenient")
        /\ UNCHANGED <<config, now, fnVars, lockVars, seqVars>>

AgainAppend ==
    \E upstream \in FailTables, fail \in AllFails :
        /\ MayFailAgain(AppendStep(fail),
                        IF dataset = NoData \/ dataset # <<>> THEN dataset ELSE
                        fetch_campaign_data(upstream, AppendWindow[1], AppendWindow[2]))
        /\ handle_append(fail, upstream, "lenient")
        /\ UNCHANGED <<config, now, fnVars, lockVars, seqVars>>

AgainRepair ==
    \E r \in RepairRanges, fail \in {"none", "config"} :
        /\ MayFailAgain(fail, <<>>)
        /\ handle_repair(fail, r[1], r[2])
        /\ UNCHANGED <<config, now, fnVars, lockVars, seqVars>>

AgainNext ==
    \/ Tick
    \/ AgainInit
    \/ AgainAppend
    \/ AgainRepair

\* -------------------------------------------------- specifications
LockOff ==
    /\ pc = [p \in Procs |-> "idle"]
    /\ waited = [p \in Procs |-> 0]
    /\ result = [p \in Procs |-> "none"]
    /\ lockFile = NoLock
    /\ file = [k \in Kinds |-> [target |-> Absent, tmp |-> Absent]]
    /\ fd = [p \in Procs |-> "none"]

FnOff == phase = "off" /\ arg = <<>> /\ ret = <<>>

\* Concurrent commands on one slug.
Init == LockInit /\ FnOff /\ OpsOff /\ SeqOff /\ now = 0

Next == LockNext

vars == <<lockVars, fnVars, opsVars, now, seqVars>>

Spec == Init /\ [][Next]_vars

\* A started process that is not killed goes on running: the scheduler gives
\* it its next step, whichever that is.
Running(p) ==
    \/ lock_create(p)
    \/ lock_wait(p)
    \/ lock_expired(p)
    \/ lock_stale_read(p)
    \/ lock_stale_remove(p)
    \/ lock_write_pid(p)
    \/ \E o \in Commands : handler_body(p, o)
    \/ \E k \in Kinds : tmp_open(p, k) \/ tmp_write(p, k) \/ tmp_rename(p, k)
    \/ handler_except(p)
    \/ lock_release(p)

SpecLive == Init /\ [][Next]_vars /\ \A p \in Procs : WF_vars(Running(p))

\* The same processes, and an operator who runs force-unlock at any time.
NextUnlock == LockNext \/ force_unlock

SpecUnlock == Init /\ [][NextUnlock]_vars

\* The same processes, each running init, append, repair or validate.
NextValidate == LockNext \/ ValidateNext

SpecValidate == Init /\ [][NextValidate]_vars

\* One call of chunk_date_ranges(start, end, chunk_days).
ChunkBase == fromisoformat(<<2024, 2, 27>>)

ChunkExample ==
    [start |-> fromisoformat(<<2024, 1, 1>>),
     end |-> fromisoformat(<<2024, 4, 15>>), chunk_days |-> 90]

ChunkInputs ==
    {[start |-> ChunkBase + s, end |-> ChunkBase + e, chunk_days |-> c] :
        s \in 0..2, e \in 0..MaxSpan, c \in 1..MaxChunkDays}
    \cup {ChunkExample}

ChunkInit ==
    /\ LockOff /\ OpsOff /\ SeqOff /\ now = 0
    /\ phase = "call" /\ arg \in ChunkInputs /\ ret = <<>>

chunk_call ==
    /\ phase = "call"
    /\ ret' = chunk_date_ranges(arg.start, arg.end, arg.chunk_days)
    /\ phase' = "return"
    /\ UNCHANGED <<arg, now, lockVars, opsVars, seqVars>>

SpecChunk == ChunkInit /\ [][chunk_call]_vars

\* One call of calculate_append_window(watermark_date, overlap_days,
\* max_window_days, client_tz) at wall-clock time `now`.
WindowBase == fromisoformat(<<2025, 9, 20>>)

WindowExample ==
    [watermark_date |-> <<2025, 9, 10>>, overlap_days |-> 3,
     max_window_days |-> 30, client_tz |-> "UTC"]

WindowInputs ==
    {[watermark_date |-> w, overlap_days |-> o, max_window_days |-> m, client_tz |-> z] :
        w \in {NoDate} \cup {isoformat(WindowBase - b) : b \in (-1)..MaxBack},
        o \in 0..MaxOverlap, m \in 0..MaxWindow, z \in Timezones}
    \cup {WindowExample}

WindowInit ==
    /\ LockOff /\ OpsOff /\ SeqOff
    /\ now \in {24 * WindowBase + h : h \in {0, 12, 18}}
    /\ phase = "call" /\ arg \in WindowInputs /\ ret = <<>>

window_call ==
    /\ phase = "call"
    /\ ret' = calculate_append_window(arg.watermark_date, arg.overlap_days,
                                      arg.max_window_days, arg.client_tz)
    /\ phase' = "return"
    /\ UNCHANGED <<arg, now, lockVars, opsVars, seqVars>>

SpecWindow == WindowInit /\ [][window_call]_vars

\* One call of enrich_campaign_data on a frame of two rows: any row, and the
\* row with impressions 0, clicks 0, cost 10, conversions 0; both carry
\* derived values from before the merge, or none.
EnrichExample == MetricsRow(0, 0, 10, 0, Null)

EnrichInputs ==
    {<<MetricsRow(i, c, cost, v, carried), MetricsRow(0, 0, 10, 0, carried)>> :
        i \in 0..MaxMetric, c \in 0..MaxMetric, cost \in {0, 10},
        v \in 0..MaxMetric, carried \in {Null, <<1, 3>>}}

EnrichInit ==
    /\ LockOff /\ OpsOff /\ SeqOff /\ now = 0
    /\ phase = "call" /\ arg \in EnrichInputs /\ ret = <<>>

enrich_call ==
    /\ phase = "call"
    /\ ret' = enrich_campaign_data(arg, "USD")
    /\ phase' = "return"
    /\ UNCHANGED <<arg, now, lockVars, opsVars, seqVars>>

SpecEnrich == EnrichInit /\ [][enrich_call]_vars

\* Commands run one after the other on one slug, the clock advancing.
InitOps == OpsInit /\ LockOff /\ FnOff /\ SeqOff

SpecOps == InitOps /\ [][OpsNext]_vars

\* The same with failures of every step.
SpecFail == InitOps /\ [][FailNext]_vars

SpecAgain == InitOps /\ [][AgainNext]_vars

\* Concurrent calls of get_next_sequence_number for one slug and year, on an
\* output directory without index.json or with one from earlier reports.
InitSeq ==
    /\ LockOff /\ FnOff /\ OpsOff /\ now = 0
    /\ seq = [p \in Procs |-> SeqIdle]
    /\ indexFile \in {NoIndex, [NoIndex EXCEPT !.st = "full"]}

SpecSeq == InitSeq /\ [][SeqNext]_vars

\* -------------------------------------------------- claims, concurrent
\* C1: at most one live process at a time is inside the locked section,
\* between its exclusive create of the lock file and its release.
C1_MutualExclusion ==
    \A p, q \in Procs : p # q => ~(InSection(p) /\ InSection(q))

\* C2: a waiter that finds the lock file present with the pid of no
\* existing process goes on to remove it at once: it does not sleep first
\* until its timeout has elapsed.
C2_StaleReclaimedAtOnce ==
    [][\A p \in Procs :
          (pc[p] = "acquire" /\ IsStale(lockFile) /\ lockFile' = lockFile)
              => waited'[p] = waited[p]]_lockVars

\* C4: the dataset file and the state file are each, in every state, absent
\* or complete (the old content or a new one): never empty or partly written;
\* and killing a writer changes neither.
C4_TargetNeverPartial ==
    \A k \in Kinds : file[k].target.st \in {"absent", "full"}

\* C9: the state file changes only by the last step of a command, the rename
\* in save_client_state, after which the command succeeds: no command that
\* fails has changed it.
C9_StateChangedOnlyByFinalStep ==
    [][file'["state"].target # file["state"].target
          => \E p \in Procs : /\ pc[p] = "st_rename"
                              /\ pc'[p] = "release"
                              /\ result'[p] = "ok"]_lockVars

\* C10: when a process leaves the locked section through the finally clause,
\* whatever the outcome of its command (success, an error of the command, an
\* error of the error handler), no lock file is left for the slug.
C10_ReleaseRemovesLock ==
    [][\A p \in Procs :
          (pc[p] = "release" /\ pc'[p] = "exit") => lockFile' = NoLock]_lockVars

\* C10 witness: commands have left the locked section on each of the three
\* paths, and no lock file is left.
C10_Witness ==
    /\ lockFile = NoLock
    /\ \A r \in {"ok", "failed", "handler_error"} :
           \E p \in Procs : pc[p] = "exit" /\ result[p] = r

\* C11: while the lock file is there and its creator is a live process, a
\* step of a waiter leaves the lock file as it is and does not enter the
\* locked section; the waiter leaves its polling only once its timeout has
\* elapsed, and the stale check then ends in the timeout error.
C11_LiveHolderTimesOut ==
    [][\A p \in Procs :
          (/\ pc[p] \in {"acquire", "stale_read"}
           /\ lockFile # NoLock /\ ProcessExists(lockFile.creator)
           /\ pc'[p] # pc[p])
              => /\ lockFile' = lockFile
                 /\ pc[p] = "acquire" => TimedOut(p) /\ pc'[p] = "stale_read"
                 /\ pc[p] = "stale_read" =>
                        pc'[p] = "exit" /\ result'[p] = "LockTimeout"]_lockVars

\* C11 witness: a waiter has ended in the timeout error while the process
\* that created the lock file is alive inside the locked section.
C11_Witness ==
    \E p \in Procs :
        /\ pc[p] = "exit" /\ result[p] = "LockTimeout"
        /\ lockFile # NoLock /\ lockFile.creator # p
        /\ InSection(lockFile.creator)

\* C18: a command that ended in the timeout error of client_lock has
\* written an ErrorRecord for the slug.
C18_LockTimeoutIsRecorded ==
    \A p \in Procs :
        pc[p] = "exit" /\ result[p] = "LockTimeout" =>
            \E e \in errors : e.slug = "slug" /\ e.process = p

\* C23: no process running validate reads the state file or the dataset file
\* while another process is inside the locked section.
C23_ValidateUnderLock ==
    [][\A p \in Procs :
          pc[p] \in {"v_state", "v_csv"} /\ pc'[p] # pc[p] =>
              \A q \in Procs \ {p} : ~InSection(q)]_vars

\* C24: validate performs and reports the state check after the config check
\* and the dataset check after the state check, whatever the earlier check
\* found.
C24_ValidateChecksAll ==
    [][\A p \in Procs :
          /\ pc[p] = "v_config" /\ pc'[p] # pc[p] => pc'[p] = "v_state"
          /\ pc[p] = "v_state" /\ pc'[p] # pc[p] => pc'[p] = "v_csv"]_vars

\* C28: no step of validate changes the state file, the dataset file, their
\* temp paths, the lock file or the error records.
C28_ValidateReadOnly ==
    [][\A p \in Procs :
          pc[p] \in {"v_config", "v_state", "v_csv"} /\ pc'[p] # pc[p] =>
              /\ file' = file
              /\ lockFile' = lockFile
              /\ errors' = errors]_vars

\* A validate has passed the state check with no state file, and a validate
\* has failed.
C28_Witness ==
    \E p, q \in Procs :
        /\ pc[p] = "v_csv" /\ file["state"].target = Absent
        /\ pc[q] = "exit" /\ result[q] = "invalid"

\* C25: the dataset file and the state file change only by the rename of
\* their temp path over them, made by a process inside the locked section.
C25_WritesByRenameUnderLock ==
    [][\A k \in Kinds :
          file'[k].target # file[k].target =>
              /\ \E p \in Procs : InSection(p) /\ pc[p] = PcRename(k)
                                               /\ pc'[p] # pc[p]
              /\ file'[k].target = file[k].tmp]_vars

\* The lock file in place was created by a process that has been killed.
LockOfKilled == lockFile # NoLock /\ pc[lockFile.creator] = "dead"

\* C26: when the lock file of a killed process is in place and a live process
\* is acquiring the lock, a live process is eventually inside the locked
\* section.
C26_KilledHolderReclaimed ==
    (LockOfKilled /\ \E p \in Procs : pc[p] = "acquire")
        ~> (\E p \in Procs : InSection(p))

\* C29: a process leaving the locked section leaves a lock file in place
\* that another process created.
C29_ReleaseOnlyOwnLock ==
    [][\A p \in Procs :
          pc[p] = "release" /\ pc'[p] = "exit"
              /\ lockFile # NoLock /\ lockFile.creator # p
            => lockFile' = lockFile]_vars

\* -------------------------------------------------- claims, date windows
\* The sub-windows as pairs of day numbers.
ChunkDays(r) == [i \in 1..Len(r) |-> <<fromisoformat(r[i][1]), fromisoformat(r[i][2])>>]

\* C6: chunk_date_ranges returns consecutive ascending sub-windows that cover
\* exactly the dates start..end (none when start > end, one when start =
\* end), without overlap, each of at most chunk_days dates; for 2024-01-01 ..
\* 2024-04-15 and 90 days these are 01-01..03-30 and 03-31..04-15.
C6_ChunksCoverExactly ==
    phase = "return" /\ arg \in ChunkInputs =>
        LET r == ChunkDays(ret)
            n == Len(ret)
        IN  /\ arg.start > arg.end => n = 0
            /\ arg.start = arg.end => n = 1
            /\ arg.start <= arg.end =>
                   /\ n >= 1
                   /\ r[1][1] = arg.start
                   /\ r[n][2] = arg.end
            /\ \A i \in 1..n :
                   /\ r[i][1] <= r[i][2]
                   /\ r[i][2] - r[i][1] + 1 <= arg.chunk_days
            /\ \A i \in 1..(n - 1) : r[i + 1][1] = r[i][2] + 1
            /\ arg = ChunkExample =>
                   ret = << <<(<<2024, 1, 1>>), (<<2024, 3, 30>>)>>,
                            <<(<<2024, 3, 31>>), (<<2024, 4, 15>>)>> >>

\* Yesterday in zone tz: the day before the one the local wall clock is in.
IsYesterday(d, tz) ==
    /\ 24 * (d + 1) <= now + UtcOffset(tz)
    /\ now + UtcOffset(tz) < 24 * (d + 2)

\* C7: calculate_append_window returns end = yesterday in the client's zone
\* and start = watermark - overlap_days (yesterday - max_window_days without
\* a watermark), clamped to yesterday - max_window_days when the span would
\* exceed max_window_days; so end - start <= max_window_days; watermark
\* 2025-09-10, overlap 3, max 30 on 2025-09-20 give 2025-09-07 .. 2025-09-19.
C7_AppendWindow ==
    phase = "return" /\ arg \in WindowInputs =>
        LET start == fromisoformat(ret[1])
            end == fromisoformat(ret[2])
            unclamped == IF arg.watermark_date # NoDate
                         THEN fromisoformat(arg.watermark_date) - arg.overlap_days
                         ELSE end - arg.max_window_days
        IN  /\ IsYesterday(end, arg.client_tz)
            /\ start = IF end - unclamped > arg.max_window_days
                       THEN end - arg.max_window_days
                       ELSE unclamped
            /\ end - start <= arg.max_window_days
            /\ arg = WindowExample =>
                   ret = <<(<<2025, 9, 7>>), (<<2025, 9, 19>>)>>

\* C7 witness: the call returned for a watermark so old that the start was
\* clamped, in a zone whose local date differs from the UTC date.
C7_Witness ==
    /\ phase = "return" /\ arg \in WindowInputs
    /\ arg.watermark_date # NoDate
    /\ fromisoformat(ret[2]) - (fromisoformat(arg.watermark_date) - arg.overlap_days)
           > arg.max_window_days
    /\ fromisoformat(ret[2]) # (now \div 24) - 1

\* -------------------------------------------------- claims, commands
\* A step of a command (the clock stands still), which `last` then describes.
CommandStep(command) == now' = now /\ last'.command = command

Succeeded == last'.raised = "none"

\* C3: every successful append leaves a watermark that is not before the one
\* stored before it, and that is the end date of the window it computed.
C3_WatermarkMovesForward ==
    [][CommandStep("append") /\ Succeeded =>
          /\ stateFile'.watermark_date = AppendWindow[2]
          /\ stateFile.watermark_date # NoDate =>
                 fromisoformat(stateFile'.watermark_date)
                     >= fromisoformat(stateFile.watermark_date)]_vars

\* The keys of a frame, and its row for a key.
Keys(df) == {PrimaryKey(df[i]) : i \in 1..Len(df)}

RowsOf(df, key) == {df[i] : i \in {j \in 1..Len(df) : PrimaryKey(df[j]) = key}}

\* C5: the dataset a successful append writes, from the existing rows A and
\* the fetched rows B, has exactly one row for each key of A and of B and no
\* other; for a key of B that row is B's, for the other keys it is A's.
C5_MergeKeepsNew ==
    [][CommandStep("append") /\ Succeeded =>
          LET A == read_csv(dataset)
              B == last'.fetched
              M == read_csv(dataset')
          IN  /\ Keys(M) = Keys(A) \cup Keys(B)
              /\ Cardinality(Keys(M)) = Len(M)
              /\ \A key \in Keys(B) : RowsOf(M, key) = RowsOf(B, key)
              /\ \A key \in Keys(A) \ Keys(B) : RowsOf(M, key) = RowsOf(A, key)]_vars

\* C5 witness: an append has replaced a stored row by the row it fetched for
\* the same key, and has kept a stored row of an earlier pull.
C5_Witness ==
    /\ last.command = "append" /\ last.raised = "none"
    /\ last.removed > 0
    /\ \E i \in 1..Len(last.fetched) : last.fetched[i].pull_date = now
    /\ \E i \in 1..Len(dataset) : read_csv(dataset)[i].pull_date < now

\* C8: a command that fails at any step of its locked section has written an
\* ErrorRecord with its name, the type and message of the error and its context, and the
\* caller gets that error.
C8_FailureIsRecorded ==
    [][(\E c \in Commands : CommandStep(c)) /\ ~Succeeded =>
          /\ last'.raised = ExceptionType(last'.step)
          /\ \E e \in errors' :
                 /\ e.timestamp = now
                 /\ e.command = last'.command
                 /\ e.exception_type = ExceptionType(last'.step)
                 /\ e.exception_message = last'.step
                 /\ last'.command = "append" =>
                        e.context = [start_date |-> AppendWindow[1],
                                     end_date |-> AppendWindow[2]]]_vars

\* C12: an append on a slug without a master CSV fails, at the latest with
\* the FileNotFoundError of the missing file, and leaves both the dataset
\* file and the state file absent or as they were.
C12_AppendNeedsInit ==
    [][CommandStep("append") /\ dataset = NoData =>
          /\ ~Succeeded
          /\ last'.step = "load_csv" => last'.raised = "FileNotFoundError"
          /\ dataset' = NoData
          /\ stateFile' = stateFile]_vars

\* C12 witness: an append has failed on the missing master CSV of a slug
\* that has no state file either.
C12_Witness ==
    /\ last.command = "append" /\ last.step = "load_csv"
    /\ dataset = NoData /\ stateFile = NoState

\* C13: after a successful repair of a range, whatever rows the upstream
\* holds for that range are the rows of the dataset file for their keys.
C13_RepairMergesRange ==
    [][CommandStep("repair") /\ Succeeded =>
          \A r \in RepairRanges, upstream \in UpstreamTables :
              LET B == fetch_campaign_data(upstream, r[1], r[2])
              IN  B # <<>> =>
                      /\ dataset' # NoData
                      /\ \A key \in Keys(B) :
                             RowsOf(read_csv(dataset'), key) = RowsOf(B, key)]_vars

\* C14: a successful repair that follows a successful repair leaves the
\* dataset file as the first one left it.
C14_RepairTwiceSame ==
    [][CommandStep("repair") /\ Succeeded /\ last'.again => dataset' = dataset]_vars

\* C14 witness: two repairs have run in a row on a slug that has a dataset.
C14_Witness ==
    /\ last.command = "repair" /\ last.raised = "none" /\ last.again
    /\ dataset # NoData /\ dataset # <<>>

\* C15: a successful init stores as watermark the end of its backfill
\* window, which is yesterday in the client's zone: no row it fetched is of a
\* later date.
C15_InitEndsYesterday ==
    [][CommandStep("init") /\ Succeeded =>
          /\ IsYesterday(fromisoformat(stateFile'.watermark_date), config.timezone)
          /\ \A i \in 1..Len(last'.fetched) :
                 fromisoformat(last'.fetched[i].date)
                     <= fromisoformat(stateFile'.watermark_date)]_vars

\* C16: an init or append whose validation ran, whatever it returned, has
\* not failed at it; if no later step failed the command wrote the merged
\* dataset and the watermark, the same for every validation result.
C16_ValidationNeverBlocks ==
    [][(CommandStep("init") \/ CommandStep("append")) /\ last'.validation # "not_run" =>
          /\ last'.step \in {"none", "write_csv", "save_state"}
          /\ Succeeded =>
                 IF last'.command = "init"
                 THEN /\ dataset' = to_csv(deduplicate_campaigns(last'.fetched))
                      /\ stateFile'.watermark_date = isoformat(LocalDate(ServerZone))
                 ELSE /\ dataset' = to_csv(deduplicate_campaigns(
                                        Concat(read_csv(dataset), last'.fetched)))
                      /\ stateFile'.watermark_date = AppendWindow[2]]_vars

\* C16 witness: an append whose validation returned errors has succeeded and
\* written rows.
C16_Witness ==
    /\ last.command = "append" /\ last.raised = "none"
    /\ last.validation = "invalid"
    /\ dataset # NoData /\ dataset # <<>>

\* -------------------------------------------------- claims, derived metrics
\* The derived value a row must have: numerator / denominator, null for a
\* denominator of 0.
Derived(numerator, denominator) ==
    IF denominator = 0 THEN Null ELSE Quotient(numerator, denominator)

\* C17: after enrich_campaign_data every row has ctr = clicks / impressions,
\* avg_cpc = cost / clicks, cpa = cost / conversions and conv_rate =
\* conversions / clicks of its own metrics, null for a denominator of 0,
\* whatever it carried before; its metrics are as they were; the row with
\* impressions 0, clicks 0, cost 10, conversions 0 has four nulls.
C17_DerivedRecomputed ==
    phase = "return" /\ arg \in EnrichInputs =>
        /\ Len(ret) = Len(arg)
        /\ \A i \in 1..Len(arg) :
               /\ ret[i].ctr = Derived(arg[i].clicks, arg[i].impressions)
               /\ ret[i].avg_cpc = Derived(arg[i].cost, arg[i].clicks)
               /\ ret[i].cpa = Derived(arg[i].cost, arg[i].conversions)
               /\ ret[i].conv_rate = Derived(arg[i].conversions, arg[i].clicks)
               /\ \A f \in {"impressions", "clicks", "cost", "conversions"} :
                      ret[i][f] = arg[i][f]
        /\ \A f \in {"ctr", "avg_cpc", "cpa", "conv_rate"} : ret[2][f] = Null

\* C17 witness: the call returned for a row that carried derived values and
\* has clicks but no conversions, beside the example row.
C17_Witness ==
    /\ phase = "return" /\ arg \in EnrichInputs
    /\ arg[1].ctr # Null /\ arg[1].clicks > 0 /\ arg[1].conversions = 0
    /\ arg[1].impressions > arg[1].clicks
    /\ ret[1].cpa = Null /\ ret[1].ctr # Null /\ ret[1].ctr # arg[1].ctr

\* C19: no step removes or changes an ErrorRecord file, and a failed command
\* adds one file of its own.  (The failures that reach no
\* save_error_recovery_info at all are those of C8.)
C19_RecordsAccumulate ==
    [][/\ errors \subseteq errors'
       /\ (\E c \in Commands : CommandStep(c)) /\ ~Succeeded
              /\ last'.raised # "UnboundLocalError"
            => Cardinality(errors') = Cardinality(errors) + 1]_vars

\* C20: the recovery command in the record of a failed append or repair is
\* accepted by the parser as a repair of the same slug with the start and end
\* dates of the failed attempt.
C20_RecoveryCommandAccepted ==
    \A e \in errors :
        e.command \in {"append", "repair"} =>
            \E a \in {parse_args(e.recovery_command)} :
                /\ a.ok
                /\ a.command = "repair"
                /\ a.slug = e.slug
                /\ a.start = e.context.start_date
                /\ a.end = e.context.end_date

\* C21: a successful init or append adds to duplicate_rows_removed in the
\* saved state the number of rows its deduplication dropped.
C21_DuplicatesCounted ==
    [][\A c \in {"init", "append"} :
          CommandStep(c) /\ Succeeded =>
              stateFile'.duplicate_rows_removed
                  = load_client_state.duplicate_rows_removed + last'.removed]_vars

\* C22: every key (date, campaign_id, data_source) of the dataset file is
\* still in the dataset file after a successful init or append.
C22_KeysNeverDeleted ==
    [][\A c \in {"init", "append"} :
          CommandStep(c) /\ Succeeded /\ dataset # NoData =>
              Keys(read_csv(dataset)) \subseteq Keys(read_csv(dataset'))]_vars

\* C30: whatever watermark a successful init or append has stored, the window
\* an append computes from it now does not start after it ends.
C30_WindowNotInverted ==
    stateFile # NoState /\ stateFile.watermark_date # NoDate =>
        fromisoformat(AppendWindow[1]) <= fromisoformat(AppendWindow[2])

\* -------------------------------------------------- claims, sequence numbers
SeqDone == {p \in Procs : seq[p].at = "done"}

\* C27: every finished call of get_next_sequence_number has returned a
\* number, no two calls the same one, and once all calls made have finished
\* last_sequence in index.json has grown by the number of calls.
C27_SequenceNumbersDistinct ==
    /\ \A p \in SeqDone : seq[p].out > 0
    /\ \A p, q \in SeqDone : p # q => seq[p].out # seq[q].out
    /\ (SeqDone # {} /\ \A p \in Procs : seq[p].at \in {"idle", "done"}) =>
           /\ indexFile.st = "full"
           /\ indexFile.last_sequence = Cardinality(SeqDone)

====
